---------------------------- MODULE Spec2Model ----------------------------
(***************************************************************************)
(* Model of the barcode rendering pipeline of treepoem (generate_barcode,  *)
(* _ghostscript_binary, _hexify, _format_options) and of the batch driver  *)
(* generate_barcodes of main.py.                                           *)
(*                                                                         *)
(* Text is modelled as a sequence of tokens.  A token is one character     *)
(* ("\n", " ", "<", a hex digit, ...) or one indivisible word of the       *)
(* protocol ("BWIPP ERROR:", "%%HiResBoundingBox:", a number such as       *)
(* "10.0").  strip, split, startswith, replace and join are computed on    *)
(* these sequences the way Python computes them on strings.                *)
(***************************************************************************)
EXTENDS Integers, Sequences, FiniteSets, TLC

VARIABLES
    \* ---- process-wide state of the treepoem module
    platform,     \* sys.platform family: "win32" or "linux"
    which,        \* the candidate names shutil.which finds on the search path
    gs_cache,     \* lru_cache of _ghostscript_binary: <<>> or <<name>>
    searches,     \* how many times the candidate names were searched
    calls,        \* generate_barcode calls started so far
    \* ---- state of the generate_barcode call in progress
    pc,           \* "idle", "encoded", "probed", "parsed", "rendered", "done", "error"
    req,          \* [barcode_type, scale] of the call
    probeRuns,    \* subprocess.run invocations of the bbox pass in this call
    finalRuns,    \* subprocess.run invocations of the png16m pass in this call
    gs_rc,        \* returncode of the bbox pass
    gs_stderr,    \* stderr of the bbox pass
    gs2_rc,       \* returncode of the png16m pass
    gs2_png,      \* whether stdout of the png16m pass decodes as an image
    bbox,         \* <<>> or <<bbx1, bby1, bbx2, bby2>> (tenths of a point)
    eps,          \* the numbers substituted into EPS_TEMPLATE, or <<>>
    err,          \* the exception the call raised, NoErr when none
    image,        \* <<>> or <<the returned image>>
    trace,        \* the steps of this call, in order
    \* ---- _hexify
    hx_in,        \* [kind |-> "bytes" | "str", v |-> bytes or code points]
    hx_out,       \* <<>> or <<the returned text>>
    \* ---- _format_options
    fo_in,        \* the options mapping, as the sequence of its items
    fo_out,       \* <<>> or <<the returned text>>
    \* ---- generate_barcodes (main.py)
    b_lines,      \* file.readlines() of the input file
    b_i,          \* index into lines[1:] of the next line, from 1
    b_pc,         \* "idle", "loop", "done"
    b_log         \* what was printed for each processed line, in order

renderVars == <<platform, which, gs_cache, searches, calls, pc, req, probeRuns,
                finalRuns, gs_rc, gs_stderr, gs2_rc, gs2_png, bbox, eps, err,
                image, trace>>
hexVars == <<hx_in, hx_out>>
optVars == <<fo_in, fo_out>>
batchVars == <<b_lines, b_i, b_pc, b_log>>
vars == <<renderVars, hexVars, optVars, batchVars>>

-----------------------------------------------------------------------------
(* Bounds of the model *)

\* generate_barcode calls made in one process
MaxCalls == 2
\* lines of diagnostic output the bbox pass may write
MaxLines == 2

-----------------------------------------------------------------------------
(* Python string operations, on token sequences *)

NL == "\n"
SP == " "
Whitespace == {NL, SP}

Range(s) == {s[i] : i \in 1..Len(s)}

RECURSIVE lstrip(_)
lstrip(s) ==
    IF s # <<>> /\ Head(s) \in Whitespace THEN lstrip(Tail(s)) ELSE s

RECURSIVE rstrip(_)
rstrip(s) ==
    IF s # <<>> /\ s[Len(s)] \in Whitespace
    THEN rstrip(SubSeq(s, 1, Len(s) - 1))
    ELSE s

\* str.strip()
strip(s) == rstrip(lstrip(s))

\* the index of the first occurrence of token c in s (c is in s)
IndexOf(s, c) == CHOOSE i \in 1..Len(s) : s[i] = c /\ \A j \in 1..(i - 1) : s[j] # c

\* str.split(sep, maxsplit); maxsplit = -1 is no limit
RECURSIVE split(_, _, _)
split(s, sep, maxsplit) ==
    IF maxsplit = 0 \/ sep \notin Range(s)
    THEN <<s>>
    ELSE LET k == IndexOf(s, sep)
         IN  <<SubSeq(s, 1, k - 1)>> \o split(SubSeq(s, k + 1, Len(s)), sep, maxsplit - 1)

\* str.startswith(prefix)
startswith(s, prefix) ==
    Len(s) >= Len(prefix) /\ SubSeq(s, 1, Len(prefix)) = prefix

\* sep.join(items)
RECURSIVE join(_, _)
join(sep, items) ==
    IF items = <<>> THEN <<>>
    ELSE IF Len(items) = 1 THEN items[1]
    ELSE items[1] \o sep \o join(sep, Tail(items))

-----------------------------------------------------------------------------
(* The diagnostic output of the bbox pass *)

\* the tag BBOX_TEMPLATE writes in front of a trapped BWIPP error
MARK == "BWIPP ERROR:"
\* the tag the bbox device writes in front of the exact bounding box
HIRES == "%%HiResBoundingBox:"

\* float(n) of the number tokens the model uses, in tenths of a point
FloatOf == [t \in {"0.0", "10.0", "20.0", "70.5", "110.0"} |->
              CASE t = "0.0" -> 0
                [] t = "10.0" -> 100
                [] t = "20.0" -> 200
                [] t = "70.5" -> 705
                [] t = "110.0" -> 1100]
NumTokens == DOMAIN FloatOf

\* lines the rasterizer may write
BBoxLine == <<"%%BoundingBox:", SP, "10", SP, "20", SP, "110", SP, "71">>
GoodLine == <<HIRES, SP, "10.0", SP, "20.0", SP, "110.0", SP, "70.5">>
ThreeNumbers == <<HIRES, SP, "10.0", SP, "20.0", SP, "110.0">>
DoubleSpace == <<HIRES, SP, "10.0", SP, SP, "20.0", SP, "110.0", SP, "70.5">>
NotANumber == <<HIRES, SP, "10.0", SP, "20.0", SP, "110.0", SP, "x">>
NoPrefix == <<"10.0", SP, "20.0", SP, "110.0", SP, "70.5">>
ErrorLine == <<MARK, SP, "badOption", SP, "Unknown", SP, "option">>

StderrLines == {<<>>, BBoxLine, GoodLine, ThreeNumbers, DoubleSpace, NotANumber,
               NoPrefix, ErrorLine}

RECURSIVE SeqsUpTo(_, _)
SeqsUpTo(S, n) ==
    IF n = 0 THEN {<<>>}
    ELSE LET shorter == SeqsUpTo(S, n - 1)
         IN  shorter \cup {Append(s, x) : s \in shorter, x \in S}

\* what the bbox pass may leave on stderr: up to MaxLines lines, with or
\* without a newline in front and at the end
Stderrs ==
    {lead \o join(<<NL>>, ls) \o trail :
        ls \in SeqsUpTo(StderrLines, MaxLines),
        lead \in {<<>>, <<NL>>},
        trail \in {<<>>, <<NL>>}}

-----------------------------------------------------------------------------
(* Exceptions *)

NoErr == [type |-> "none", msg |-> <<>>]
Raise(type, msg) == [type |-> type, msg |-> msg]

\* the message of the TreepoemError _ghostscript_binary raises
CannotDetermine == <<"Cannot determine path to ghostscript, is it installed?">>

-----------------------------------------------------------------------------
(* _ghostscript_binary, under lru_cache *)

\* the candidate names, in the order they are tried
gs_options(plat) ==
    IF plat = "win32" THEN <<"gswin32c", "gswin64c", "gs">> ELSE <<"gs">>

\* the body of _ghostscript_binary: the first candidate shutil.which finds,
\* <<>> when the loop ends and the function raises
gs_search(plat, path) ==
    LET options == gs_options(plat)
        found == {i \in 1..Len(options) : options[i] \in path}
    IN  IF found = {} THEN <<>>
        ELSE <<options[CHOOSE i \in found : \A j \in found : i <= j]>>

\* what lru_cache keeps of a call of the wrapped function: a returned value is
\* stored, a raised exception is not
lru_store(result) == result

\* one call of the cached function: [name, cache, searched]; name = <<>> means
\* the call raised TreepoemError
ghostscript_binary(cache, plat, path) ==
    IF cache # <<>>
    THEN [name |-> cache, cache |-> cache, searched |-> 0]
    ELSE LET r == gs_search(plat, path)
         IN  [name |-> r, cache |-> lru_store(r), searched |-> 1]

-----------------------------------------------------------------------------
(* generate_barcode *)

\* treepoem.data.barcode_types, a few of its keys
barcode_types == {"code128", "qrcode", "ean13"}

page_offset == 3000

\* propagate with the exception lost: the call goes on after a failed step
propagate_swallowed(e, on) == on

\* a raised exception ends the call; without one the call goes on to `on`
propagate(e, on) == IF e = NoErr THEN on ELSE "error"

\* check_arguments without the test of the barcode type
check_arguments_any_type(barcode_type, scale) ==
    IF scale < 1
    THEN Raise("ValueError", <<"scale must be at least 1">>)
    ELSE NoErr

\* check_arguments with the scale compared to 0 instead of 1
check_arguments_scale_zero(barcode_type, scale) ==
    IF barcode_type \notin barcode_types
    THEN Raise("NotImplementedError", <<"unsupported barcode type", barcode_type>>)
    ELSE IF scale < 0
    THEN Raise("ValueError", <<"scale must be at least 1">>)
    ELSE NoErr

\* lines 138-143: the checks made before anything is built or run
check_arguments(barcode_type, scale) ==
    IF barcode_type \notin barcode_types
    THEN Raise("NotImplementedError", <<"unsupported barcode type", barcode_type>>)
    ELSE IF scale < 1
    THEN Raise("ValueError", <<"scale must be at least 1">>)
    ELSE NoErr

\* check_returncode as subprocess.run(..., check=False) would be
check_returncode_unchecked(rc) == NoErr

\* subprocess.run(..., check=True): a non-zero return code raises
check_returncode(rc) ==
    IF rc # 0 THEN Raise("CalledProcessError", <<>>) ELSE NoErr

\* lines 182-185: the test for a failed bbox pass and the message raised
probe_error(rc, err_output) ==
    IF rc # 0 \/ MARK \in Range(err_output)
    THEN Raise("TreepoemError",
               IF startswith(err_output, <<MARK, SP>>)
               THEN SubSeq(err_output, 3, Len(err_output))
               ELSE err_output)
    ELSE NoErr

\* float(n) of one piece of the bounding box line
IsFloat(n) == Len(n) = 1 /\ n[1] \in NumTokens

\* lines 186-190: [err, bbox] from the stripped diagnostic output
parse_bbox(err_output) ==
    LET parts == split(err_output, NL, 2)
    IN  IF Len(parts) < 2
        THEN [err |-> Raise("IndexError", <<>>), bbox |-> <<>>]
        ELSE
        LET hiresbbox_line == parts[2]
        IN  IF ~startswith(hiresbbox_line, <<HIRES, SP>>)
            THEN [err |-> Raise("AssertionError", <<>>), bbox |-> <<>>]
            ELSE
            LET numbers == split(SubSeq(hiresbbox_line, 3, Len(hiresbbox_line)), SP, -1)
            IN  IF Len(numbers) # 4
                THEN [err |-> Raise("AssertionError", <<>>), bbox |-> <<>>]
                ELSE IF \E i \in 1..4 : ~IsFloat(numbers[i])
                THEN [err |-> Raise("ValueError", <<>>), bbox |-> <<>>]
                ELSE [err |-> NoErr,
                      bbox |-> [i \in 1..4 |-> FloatOf[numbers[i][1]]]]

\* parse_probe without the strip() of line 178
parse_probe_unstripped(rc, stderr) ==
    LET e == probe_error(rc, stderr)
    IN  IF e # NoErr THEN [err |-> e, bbox |-> <<>>] ELSE parse_bbox(stderr)

\* lines 178-190: what the call makes of the completed bbox pass
parse_probe(rc, stderr) ==
    LET err_output == strip(stderr)
        e == probe_error(rc, err_output)
    IN  IF e # NoErr THEN [err |-> e, bbox |-> <<>>] ELSE parse_bbox(err_output)

\* math.ceil of a number held in tenths
ceil(x) == IF x % 10 = 0 THEN x \div 10 ELSE x \div 10 + 1

\* lines 192-206: the numbers substituted into EPS_TEMPLATE
eps_numbers(b) ==
    LET width == b[3] - b[1]
        height == b[4] - b[2]
    IN  [ceilwidth |-> ceil(width), ceilheight |-> ceil(height),
         width |-> width, height |-> height,
         translate_x |-> page_offset * 10 - b[1],
         translate_y |-> page_offset * 10 - b[2]]

BarcodeTypeInputs == {"code128", "interleaved3of5"}
ScaleInputs == {-1, 0, 2}

\* a caller calls generate_barcode(barcode_type, data, options, scale=scale);
\* lines 138-157 run: the arguments are checked and the bbox program is built
Call(barcode_type, scale) ==
    /\ pc \in {"idle", "done", "error"}
    /\ calls < MaxCalls
    /\ calls' = calls + 1
    /\ req' = [barcode_type |-> barcode_type, scale |-> scale]
    /\ LET e == check_arguments(barcode_type, scale)
       IN  /\ err' = e
           /\ pc' = propagate(e, "encoded")
           /\ trace' = IF e = NoErr THEN <<>> ELSE <<"error">>
    /\ probeRuns' = 0
    /\ finalRuns' = 0
    /\ gs_rc' = 0
    /\ gs_stderr' = <<>>
    /\ gs2_rc' = 0
    /\ gs2_png' = FALSE
    /\ bbox' = <<>>
    /\ eps' = <<>>
    /\ image' = <<>>
    /\ UNCHANGED <<platform, which, gs_cache, searches>>
    /\ UNCHANGED <<hexVars, optVars, batchVars>>

\* lines 159-177: the binary is looked up, then the bbox pass runs to its end
\* and leaves a return code and its diagnostic output
ProbeRun(rc, stderr) ==
    /\ pc = "encoded"
    /\ LET g == ghostscript_binary(gs_cache, platform, which)
       IN  /\ gs_cache' = g.cache
           /\ searches' = searches + g.searched
           /\ IF g.name = <<>>
              THEN /\ err' = Raise("TreepoemError", CannotDetermine)
                   /\ pc' = "error"
                   /\ trace' = Append(trace, "error")
                   /\ UNCHANGED <<probeRuns, gs_rc, gs_stderr>>
              ELSE /\ probeRuns' = probeRuns + 1
                   /\ gs_rc' = rc
                   /\ gs_stderr' = stderr
                   /\ LET e == check_returncode(rc)
                      IN  /\ err' = e
                          /\ pc' = propagate(e, "probed")
                          /\ trace' = IF e = NoErr
                                      THEN Append(trace, "probe")
                                      ELSE trace \o <<"probe", "error">>
    /\ UNCHANGED <<platform, which, calls, req, finalRuns, gs2_rc, gs2_png, bbox,
                   eps, image>>
    /\ UNCHANGED <<hexVars, optVars, batchVars>>

\* lines 178-206: the diagnostic output is examined, the bounding box parsed
\* and the final program built
ParseProbe ==
    /\ pc = "probed"
    /\ LET r == parse_probe(gs_rc, gs_stderr)
       IN  /\ err' = r.err
           /\ bbox' = r.bbox
           /\ eps' = IF r.err = NoErr THEN eps_numbers(r.bbox) ELSE <<>>
           /\ pc' = propagate(r.err, "parsed")
           /\ trace' = Append(trace, IF r.err = NoErr THEN "parse" ELSE "error")
    /\ UNCHANGED <<platform, which, gs_cache, searches, calls, req, probeRuns,
                   finalRuns, gs_rc, gs_stderr, gs2_rc, gs2_png, image>>
    /\ UNCHANGED <<hexVars, optVars, batchVars>>

\* lines 207-227: the binary is looked up again, then the png16m pass runs to
\* its end and leaves a return code and the image bytes
FinalRun(rc, png) ==
    /\ pc = "parsed"
    /\ LET g == ghostscript_binary(gs_cache, platform, which)
       IN  /\ gs_cache' = g.cache
           /\ searches' = searches + g.searched
           /\ IF g.name = <<>>
              THEN /\ err' = Raise("TreepoemError", CannotDetermine)
                   /\ pc' = "error"
                   /\ trace' = Append(trace, "error")
                   /\ UNCHANGED <<finalRuns, gs2_rc, gs2_png>>
              ELSE /\ finalRuns' = finalRuns + 1
                   /\ gs2_rc' = rc
                   /\ gs2_png' = png
                   /\ LET e == check_returncode(rc)
                      IN  /\ err' = e
                          /\ pc' = propagate(e, "rendered")
                          /\ trace' = IF e = NoErr
                                      THEN Append(trace, "final")
                                      ELSE trace \o <<"final", "error">>
    /\ UNCHANGED <<platform, which, calls, req, probeRuns, gs_rc, gs_stderr, bbox,
                   eps, image>>
    /\ UNCHANGED <<hexVars, optVars, batchVars>>

\* line 228: Image.open on the bytes of the png16m pass
Decode ==
    /\ pc = "rendered"
    /\ IF gs2_png
       THEN /\ image' = <<[width |-> eps.width, height |-> eps.height,
                           scale |-> req.scale]>>
            /\ pc' = "done"
            /\ trace' = Append(trace, "decode")
            /\ UNCHANGED err
       ELSE /\ err' = Raise("UnidentifiedImageError", <<>>)
            /\ pc' = "error"
            /\ trace' = Append(trace, "error")
            /\ UNCHANGED image
    /\ UNCHANGED <<platform, which, gs_cache, searches, calls, req, probeRuns,
                   finalRuns, gs_rc, gs_stderr, gs2_rc, gs2_png, bbox, eps>>
    /\ UNCHANGED <<hexVars, optVars, batchVars>>

\* the search paths the model starts a process with
WhichInputs == {{}, {"gs"}, {"gswin64c"}, {"gswin32c", "gs"}}

HexIdle == /\ hx_in = [kind |-> "bytes", v |-> <<>>]
           /\ hx_out = <<>>
OptIdle == /\ fo_in = <<>>
           /\ fo_out = <<>>
BatchIdle == /\ b_lines = <<>>
             /\ b_i = 1
             /\ b_pc = "idle"
             /\ b_log = <<>>
RenderIdle == /\ platform = "linux"
              /\ which = {"gs"}
              /\ gs_cache = <<>>
              /\ searches = 0
              /\ calls = 0
              /\ pc = "idle"
              /\ req = [barcode_type |-> "code128", scale |-> 2]
              /\ probeRuns = 0
              /\ finalRuns = 0
              /\ gs_rc = 0
              /\ gs_stderr = <<>>
              /\ gs2_rc = 0
              /\ gs2_png = FALSE
              /\ bbox = <<>>
              /\ eps = <<>>
              /\ err = NoErr
              /\ image = <<>>
              /\ trace = <<>>

Init ==
    /\ platform \in {"win32", "linux"}
    /\ which \in WhichInputs
    /\ gs_cache = <<>>
    /\ searches = 0
    /\ calls = 0
    /\ pc = "idle"
    /\ req = [barcode_type |-> "code128", scale |-> 2]
    /\ probeRuns = 0
    /\ finalRuns = 0
    /\ gs_rc = 0
    /\ gs_stderr = <<>>
    /\ gs2_rc = 0
    /\ gs2_png = FALSE
    /\ bbox = <<>>
    /\ eps = <<>>
    /\ err = NoErr
    /\ image = <<>>
    /\ trace = <<>>
    /\ HexIdle
    /\ OptIdle
    /\ BatchIdle

Next ==
    \/ \E t \in BarcodeTypeInputs, s \in ScaleInputs : Call(t, s)
    \/ \E rc \in {0, 1}, e \in Stderrs : ProbeRun(rc, e)
    \/ ParseProbe
    \/ \E rc \in {0, 1}, png \in BOOLEAN : FinalRun(rc, png)
    \/ Decode

Spec == Init /\ [][Next]_vars

-----------------------------------------------------------------------------
(* Properties of generate_barcode *)

\* C1: a call whose symbology is not in the supported set ends in the
\* unsupported-symbology error (NotImplementedError), whatever its scale, and
\* makes no rasterizer invocation: neither pass is run.
C1_UnsupportedRejectedBeforeAnyRun ==
    (pc # "idle" /\ req.barcode_type \notin barcode_types)
        => /\ pc = "error"
           /\ err.type = "NotImplementedError"
           /\ probeRuns = 0
           /\ finalRuns = 0
           /\ trace = <<"error">>

C1_Witness ==
    /\ pc = "error"
    /\ req.barcode_type \notin barcode_types
    /\ req.scale = 2
    /\ err.type = "NotImplementedError"

\* C2: a call with a supported symbology and scale < 1 ends in the
\* invalid-argument error (ValueError) and neither the bbox pass nor the
\* png16m pass is ever started.
C2_BadScaleRejectedBeforeAnyRun ==
    (pc # "idle" /\ req.barcode_type \in barcode_types /\ req.scale < 1)
        => /\ pc = "error"
           /\ err.type = "ValueError"
           /\ probeRuns = 0
           /\ finalRuns = 0
           /\ trace = <<"error">>

C2_Witness ==
    /\ pc = "error"
    /\ req.barcode_type \in barcode_types
    /\ req.scale = 0
    /\ err.type = "ValueError"

\* the lines of a text
LinesOf(s) == split(s, NL, -1)

\* a line that starts with the error marker 'BWIPP ERROR: '
IsErrorLine(l) == startswith(l, <<MARK, SP>>)

HasErrorLine(s) == \E i \in 1..Len(LinesOf(s)) : IsErrorLine(LinesOf(s)[i])

\* the engine's message: what follows the marker on the first error line
EngineMessage(s) ==
    LET ls == LinesOf(s)
        k == CHOOSE i \in 1..Len(ls) :
                IsErrorLine(ls[i]) /\ \A j \in 1..(i - 1) : ~IsErrorLine(ls[j])
    IN  SubSeq(ls[k], 3, Len(ls[k]))

\* C3: once the bbox pass has run and left a line carrying the error marker on
\* stderr, whatever its exit code and wherever the line sits, the call ends in
\* the symbology-engine error (TreepoemError) whose message is the engine's
\* message without the marker, and the png16m pass is not run.
C3_MarkerAlwaysEngineError ==
    (probeRuns = 1 /\ pc # "probed" /\ HasErrorLine(gs_stderr))
        => /\ pc = "error"
           /\ err.type = "TreepoemError"
           /\ err.msg = EngineMessage(gs_stderr)
           /\ finalRuns = 0

\* C4: the candidate names are searched at most once in the life of the
\* process, whether the first search found a binary or found none.
C4_SearchedAtMostOnce == searches <= 1

\* C5: within a call the passes are ordered and never repeated: each runs at
\* most once, the png16m pass only after the bbox pass ended and its box was
\* parsed; a call that is done ran probe, parse, final, decode in this order;
\* a call that failed raised one error and did nothing after it.
C5_PassesOrderedNeverRetried ==
    /\ probeRuns <= 1
    /\ finalRuns <= 1
    /\ finalRuns = 1
        => /\ probeRuns = 1
           /\ gs_rc = 0
           /\ Len(bbox) = 4
           /\ SubSeq(trace, 1, 3) = <<"probe", "parse", "final">>
    /\ pc = "done"
        => /\ trace = <<"probe", "parse", "final", "decode">>
           /\ probeRuns = 1
           /\ finalRuns = 1
           /\ err = NoErr
           /\ image # <<>>
    /\ \A i \in 1..Len(trace) : trace[i] = "error" => (i = Len(trace) /\ pc = "error")
    /\ pc = "error"
        => /\ err # NoErr
           /\ image = <<>>
           /\ trace # <<>>
           /\ trace[Len(trace)] = "error"
           /\ \E n \in 0..4 :
                SubSeq(trace, 1, Len(trace) - 1)
                    = SubSeq(<<"probe", "parse", "final", "decode">>, 1, n)

C5_Witness ==
    /\ pc = "done"
    /\ calls = 2
    /\ trace = <<"probe", "parse", "final", "decode">>

\* C6: a non-zero exit code is a hard failure in both passes: after a bbox pass
\* that exits non-zero with no error marker the call has failed with
\* CalledProcessError, which is not the symbology-engine error, and the png16m
\* pass is not run; after a png16m pass that exits non-zero the call has
\* failed and no image is decoded or returned.
C6_NonZeroExitIsHardFailure ==
    /\ (probeRuns = 1 /\ gs_rc # 0 /\ MARK \notin Range(gs_stderr))
        => /\ pc = "error"
           /\ err.type = "CalledProcessError"
           /\ err.type # "TreepoemError"
           /\ finalRuns = 0
    /\ (finalRuns = 1 /\ gs2_rc # 0)
        => /\ pc = "error"
           /\ err.type = "CalledProcessError"
           /\ image = <<>>
           /\ "decode" \notin Range(trace)

C6_Witness ==
    /\ pc = "error"
    /\ probeRuns = 1
    /\ gs_rc # 0
    /\ gs_stderr = <<NL>> \o BBoxLine \o <<NL>> \o GoodLine \o <<NL>>
    /\ err.type = "CalledProcessError"

\* '%%HiResBoundingBox: ' followed by four numbers
IsHiResLine(l) ==
    /\ Len(l) = 9
    /\ l[1] = HIRES
    /\ \A i \in {2, 4, 6, 8} : l[i] = SP
    /\ \A i \in {3, 5, 7, 9} : l[i] \in NumTokens

BoxOf(l) == <<FloatOf[l[3]], FloatOf[l[5]], FloatOf[l[7]], FloatOf[l[9]]>>

\* the errors of a call that are not the symbology-engine error
ProtocolErrors == {"IndexError", "AssertionError", "ValueError"}

\* what C7 says of a bbox pass that exited 0 without error marker, the second
\* line being taken from `output`
BBoxTakenFrom(output) ==
    (probeRuns = 1 /\ pc # "probed" /\ gs_rc = 0 /\ MARK \notin Range(gs_stderr))
        => LET ls == LinesOf(output)
           IN  IF Len(ls) >= 2 /\ IsHiResLine(ls[2])
               THEN /\ bbox = BoxOf(ls[2])
                    /\ "parse" \in Range(trace)
                    /\ err.type \notin ProtocolErrors
               ELSE /\ pc = "error"
                    /\ err.type \in ProtocolErrors
                    /\ bbox = <<>>
                    /\ finalRuns = 0

\* C7 as stated: the box is taken from the second line of the diagnostic
\* output; a well-formed second line gives the box x1 y1 x2 y2, every other
\* output ends the call in a protocol error without a png16m pass.
C7_BBoxFromSecondLine == BBoxTakenFrom(gs_stderr)

\* C7, amended: the same, the second line being that of the diagnostic output
\* with its leading and trailing whitespace stripped.
C7_BBoxFromStrippedSecondLine == BBoxTakenFrom(strip(gs_stderr))

C7_Witness ==
    /\ pc = "parsed"
    /\ gs_stderr = BBoxLine \o <<NL>> \o GoodLine \o <<NL>>
    /\ bbox = <<100, 200, 1100, 705>>

-----------------------------------------------------------------------------
(* _hexify *)

\* bytes of data a caller may pass
MaxBytes == 72
\* characters of text a caller may pass
MaxChars == 2

\* TextWrapper(subsequent_indent=" ", width=72)
wrap_width == 72
initial_indent == <<>>
subsequent_indent == <<SP>>

HexDigits == <<"0", "1", "2", "3", "4", "5", "6", "7",
               "8", "9", "a", "b", "c", "d", "e", "f">>

\* str.encode("utf-8") of one code point
utf8_char(cp) ==
    IF cp < 128 THEN <<cp>>
    ELSE IF cp < 2048 THEN <<192 + (cp \div 64), 128 + (cp % 64)>>
    ELSE IF cp < 65536
    THEN <<224 + (cp \div 4096), 128 + ((cp \div 64) % 64), 128 + (cp % 64)>>
    ELSE <<240 + (cp \div 262144), 128 + ((cp \div 4096) % 64),
           128 + ((cp \div 64) % 64), 128 + (cp % 64)>>

\* str.encode("utf-8")
RECURSIVE utf8(_)
utf8(text) ==
    IF text = <<>> THEN <<>> ELSE utf8_char(Head(text)) \o utf8(Tail(text))

\* binascii.hexlify(data).decode("ascii")
RECURSIVE hexlify(_)
hexlify(data) ==
    IF data = <<>> THEN <<>>
    ELSE <<HexDigits[(Head(data) \div 16) + 1], HexDigits[(Head(data) % 16) + 1]>>
         \o hexlify(Tail(data))

\* the loop of TextWrapper._wrap_chunks that moves chunks onto the current
\* line while they fit: [cur_line, cur_len, chunks]
RECURSIVE take_fitting(_, _, _, _)
take_fitting(chunks, cur_line, cur_len, width) ==
    IF chunks # <<>> /\ cur_len + Len(Head(chunks)) <= width
    THEN take_fitting(Tail(chunks), cur_line \o Head(chunks),
                      cur_len + Len(Head(chunks)), width)
    ELSE [cur_line |-> cur_line, cur_len |-> cur_len, chunks |-> chunks]

\* where TextWrapper._handle_long_word cuts the chunk that is too long for any
\* line (break_long_words; the chunk holds no hyphen)
long_word_end(cur_len, width) == IF width < 1 THEN 1 ELSE width - cur_len

\* handle_long_word losing the character at the cut
handle_long_word_dropping(chunks, cur_line, cur_len, width) ==
    LET end == long_word_end(cur_len, width)
        chunk == Head(chunks)
    IN  [cur_line |-> cur_line \o SubSeq(chunk, 1, end),
         chunks |-> <<SubSeq(chunk, end + 2, Len(chunk))>> \o Tail(chunks)]

\* TextWrapper._handle_long_word: [cur_line, chunks]
handle_long_word(chunks, cur_line, cur_len, width) ==
    LET end == long_word_end(cur_len, width)
        chunk == Head(chunks)
    IN  [cur_line |-> cur_line \o SubSeq(chunk, 1, end),
         chunks |-> <<SubSeq(chunk, end + 1, Len(chunk))>> \o Tail(chunks)]

\* TextWrapper._wrap_chunks, for chunks that hold no whitespace: the lines
RECURSIVE wrap_chunks(_, _)
wrap_chunks(chunks, lines) ==
    IF chunks = <<>> THEN lines
    ELSE
    LET indent == IF lines # <<>> THEN subsequent_indent ELSE initial_indent
        width == wrap_width - Len(indent)
        t == take_fitting(chunks, <<>>, 0, width)
        l == IF t.chunks # <<>> /\ Len(Head(t.chunks)) > width
             THEN handle_long_word(t.chunks, t.cur_line, t.cur_len, width)
             ELSE [cur_line |-> t.cur_line, chunks |-> t.chunks]
        rest == SelectSeq(l.chunks, LAMBDA c : c # <<>>)
    IN  IF l.cur_line # <<>>
        THEN wrap_chunks(rest, Append(lines, indent \o l.cur_line))
        ELSE wrap_chunks(rest, lines)

\* TextWrapper.fill of a text without whitespace or hyphen, which
\* TextWrapper._split leaves as one chunk
fill(text) ==
    join(<<NL>>, wrap_chunks(IF text = <<>> THEN <<>> ELSE <<text>>, <<>>))

\* _hexify(data)
hexify(data) ==
    LET bytes == IF data.kind = "str" THEN utf8(data.v) ELSE data.v
    IN  fill(<<"<">> \o hexlify(bytes) \o <<">">>)

\* the byte sequences the model passes: n bytes that start at `first` and go
\* up in steps of `step`
PatternBytes(n, first, step) == [i \in 1..n |-> (first + (i - 1) * step) % 256]

\* bytes that end or escape a text literal of the scripting language, and the
\* ends of the byte range: 0, "(", ")", ">", "\", 255
FirstBytes == {0, 40, 41, 62, 92, 255}

\* "A", ")", e acute, the euro sign, an emoji
CodePoints == {65, 41, 233, 8364, 128512}

HexInputs ==
    {[kind |-> "bytes", v |-> PatternBytes(n, f, st)] :
        n \in 0..MaxBytes, f \in FirstBytes, st \in {0, 1, 37}}
    \cup {[kind |-> "str", v |-> t] : t \in SeqsUpTo(CodePoints, MaxChars)}

\* a caller evaluates _hexify(data)
Hexify ==
    /\ hx_out = <<>>
    /\ hx_out' = <<hexify(hx_in)>>
    /\ UNCHANGED hx_in
    /\ UNCHANGED <<renderVars, optVars, batchVars>>

InitHex ==
    /\ hx_in \in HexInputs
    /\ hx_out = <<>>
    /\ RenderIdle
    /\ OptIdle
    /\ BatchIdle

NextHex == Hexify

SpecHex == InitHex /\ [][NextHex]_vars

\* the value of a hex digit
HexValue(d) == (CHOOSE i \in 1..16 : HexDigits[i] = d) - 1

\* the bytes a reader of the scripting language decodes from a hex literal:
\* the delimiters and all whitespace go, the digits pair up
RECURSIVE unhex(_)
unhex(digits) ==
    IF Len(digits) < 2 THEN <<>>
    ELSE <<16 * HexValue(digits[1]) + HexValue(digits[2])>>
         \o unhex(SubSeq(digits, 3, Len(digits)))

HexDecode(text) ==
    unhex(SelectSeq(text, LAMBDA c : c \notin Whitespace \cup {"<", ">"}))

\* the bytes _hexify was given
HexBytes == IF hx_in.kind = "str" THEN utf8(hx_in.v) ELSE hx_in.v

\* C8: the text _hexify returns starts with "<" and ends with ">", holds
\* between them only hex digits and line breaks, has no line longer than 72
\* columns, every line after the first starting with one space, and decodes
\* back to exactly the bytes given (the UTF-8 bytes of a text) once the
\* delimiters and the whitespace are removed.
C8_HexifyRoundTrip ==
    hx_out # <<>> =>
        LET text == hx_out[1]
            ls == LinesOf(text)
        IN  /\ Head(text) = "<"
            /\ text[Len(text)] = ">"
            /\ \A i \in 2..(Len(text) - 1) :
                    text[i] \in Range(HexDigits) \cup Whitespace
            /\ Len(SelectSeq(text, LAMBDA c : c \notin Whitespace))
                    = 2 * Len(HexBytes) + 2
            /\ \A i \in 1..Len(ls) : Len(ls[i]) <= wrap_width
            /\ \A i \in 2..Len(ls) : Head(ls[i]) = SP /\ ls[i][2] # SP
            /\ HexDecode(text) = HexBytes

\* a 72-byte input holding bytes that end a text literal, wrapped onto three
\* lines
C8_Witness ==
    /\ hx_out # <<>>
    /\ hx_in = [kind |-> "bytes", v |-> PatternBytes(72, 40, 1)]
    /\ Len(LinesOf(hx_out[1])) = 3
    /\ HexDecode(hx_out[1]) = hx_in.v

-----------------------------------------------------------------------------
(* _format_options *)

\* entries of an options mapping a caller may pass
MaxOptions == 3

\* an item of the mapping: a name and a bool or a str
BoolOption(name, b) == [name |-> name, isbool |-> TRUE, b |-> b, s |-> ""]
StrOption(name, str) == [name |-> name, isbool |-> FALSE, b |-> FALSE, s |-> str]

\* format_items without the test `if value` of line 113
RECURSIVE format_items_false_kept(_, _)
format_items_false_kept(options, items) ==
    IF options = <<>> THEN items
    ELSE
    LET o == Head(options)
    IN  IF o.isbool
        THEN format_items_false_kept(Tail(options), Append(items, <<o.name>>))
        ELSE format_items_false_kept(Tail(options),
                                     Append(items, <<o.name, "=", o.s>>))

\* the loop of lines 111-116 over the items left, in the order of the mapping
RECURSIVE format_items(_, _)
format_items(options, items) ==
    IF options = <<>> THEN items
    ELSE
    LET o == Head(options)
    IN  IF o.isbool
        THEN IF o.b
             THEN format_items(Tail(options), Append(items, <<o.name>>))
             ELSE format_items(Tail(options), items)
        ELSE format_items(Tail(options), Append(items, <<o.name, "=", o.s>>))

\* _format_options(options)
format_options(options) == join(<<SP>>, format_items(options, <<>>))

OptionNames == {"includetext", "height", "quietzone", "textsize"}

OptionItems ==
    {BoolOption(n, b) : n \in OptionNames, b \in BOOLEAN}
    \cup {StrOption(n, "1.5") : n \in OptionNames}

\* the mappings the model passes: a name is a key once
OptionInputs ==
    {o \in SeqsUpTo(OptionItems, MaxOptions) :
        \A i, j \in 1..Len(o) : i # j => o[i].name # o[j].name}

\* a caller evaluates _format_options(options)
FormatOptions ==
    /\ fo_out = <<>>
    /\ fo_out' = <<format_options(fo_in)>>
    /\ UNCHANGED fo_in
    /\ UNCHANGED <<renderVars, hexVars, batchVars>>

InitOpt ==
    /\ fo_in \in OptionInputs
    /\ fo_out = <<>>
    /\ RenderIdle
    /\ HexIdle
    /\ BatchIdle

NextOpt == FormatOptions

SpecOpt == InitOpt /\ [][NextOpt]_vars

\* {"includetext": True, "height": "1.5", "quietzone": False}
ExampleOptions ==
    <<BoolOption("includetext", TRUE), StrOption("height", "1.5"),
      BoolOption("quietzone", FALSE)>>

\* what an entry contributes: nothing when false, its name when true,
\* name=value when a string
Contribution(o) ==
    IF o.isbool THEN (IF o.b THEN <<<<o.name>>>> ELSE <<>>)
    ELSE <<<<o.name, "=", o.s>>>>

\* C9: the text _format_options returns is the contributions of the entries,
\* in insertion order, with one space between two of them: it splits at the
\* spaces into exactly the contributions of the entries that are not false,
\* the k-th piece being that of the k-th such entry; the example mapping
\* gives 'includetext height=1.5'.
C9_FormatOptions ==
    fo_out # <<>> =>
        LET kept == SelectSeq(fo_in, LAMBDA o : Contribution(o) # <<>>)
            pieces == split(fo_out[1], SP, -1)
        IN  /\ IF kept = <<>>
               THEN fo_out[1] = <<>>
               ELSE /\ Len(pieces) = Len(kept)
                    /\ \A k \in 1..Len(kept) : pieces[k] = Contribution(kept[k])[1]
            /\ fo_in = ExampleOptions
                => fo_out[1] = <<"includetext", SP, "height", "=", "1.5">>

C9_Witness ==
    /\ fo_in = ExampleOptions
    /\ fo_out = <<<<"includetext", SP, "height", "=", "1.5">>>>

-----------------------------------------------------------------------------
(* generate_barcodes of main.py *)

\* lines of the input file
MaxFileLines == 4

\* the lines file.readlines() may return, each with its line end
FileLines == {<<"1001", NL>>, <<SP, "1002", SP, NL>>, <<NL>>, <<SP, NL>>}

\* the last line of a file may lack its line end
chomp(ls) ==
    IF ls # <<>> /\ Len(ls[Len(ls)]) > 1
    THEN [ls EXCEPT ![Len(ls)] = SubSeq(@, 1, Len(@) - 1)]
    ELSE ls

FileInputs ==
    LET full == SeqsUpTo(FileLines, MaxFileLines)
    IN  full \cup {chomp(ls) : ls \in full}

\* lines[1:]
after_header(lines) == IF lines = <<>> THEN <<>> ELSE Tail(lines)

\* next_line without the except clause: an exception ends the loop
next_line_aborting(outcome, i, n) == IF outcome = "saved" THEN i + 1 ELSE n + 1

\* what the try statement of lines 44-56 leaves to do after a line: Code128,
\* save, Image.open, convert, fit or save raised an Exception or none did, and
\* the loop goes to the next line
next_line(outcome, i, n) == i + 1

\* what can happen in the try block of one line
Outcomes == {"saved", "generate_failed", "postprocess_failed"}

\* lines 21-22: the file is read
ReadFile ==
    /\ b_pc = "idle"
    /\ b_pc' = "loop"
    /\ b_i' = 1
    /\ b_log' = <<>>
    /\ UNCHANGED b_lines
    /\ UNCHANGED <<renderVars, hexVars, optVars>>

\* lines 25-56: one turn of the loop over lines[1:]
ProcessLine(outcome) ==
    /\ b_pc = "loop"
    /\ b_i <= Len(after_header(b_lines))
    /\ LET value == strip(after_header(b_lines)[b_i])
       IN  IF value = <<>>
           THEN /\ b_i' = b_i + 1
                /\ UNCHANGED b_log
           ELSE /\ b_log' = Append(b_log, [i |-> b_i, value |-> value,
                                           outcome |-> outcome])
                /\ b_i' = next_line(outcome, b_i, Len(after_header(b_lines)))
    /\ UNCHANGED <<b_lines, b_pc>>
    /\ UNCHANGED <<renderVars, hexVars, optVars>>

\* the loop ends and generate_barcodes returns
Return ==
    /\ b_pc = "loop"
    /\ b_i > Len(after_header(b_lines))
    /\ b_pc' = "done"
    /\ UNCHANGED <<b_lines, b_i, b_log>>
    /\ UNCHANGED <<renderVars, hexVars, optVars>>

InitBatch ==
    /\ b_lines \in FileInputs
    /\ b_i = 1
    /\ b_pc = "idle"
    /\ b_log = <<>>
    /\ RenderIdle
    /\ HexIdle
    /\ OptIdle

NextBatch ==
    \/ ReadFile
    \/ \E o \in Outcomes : ProcessLine(o)
    \/ Return

SpecBatch == InitBatch /\ [][NextBatch]_vars

\* the lines after the header that are not empty once stripped, among the
\* first n, each with its number and its stripped value, in file order
RECURSIVE NonEmptyLines(_, _)
NonEmptyLines(lines, n) ==
    IF n = 0 THEN <<>>
    ELSE LET v == strip(after_header(lines)[n])
         IN  NonEmptyLines(lines, n - 1)
                \o (IF v = <<>> THEN <<>> ELSE <<[i |-> n, value |-> v]>>)

\* C10: the driver processes every non-empty line after the header exactly
\* once and in file order, whether the lines before it were saved or failed:
\* at every moment the processed lines are exactly the non-empty ones among
\* the lines already passed, and when the driver returns it has passed all
\* the lines of the input.
C10_BatchNeverAborted ==
    /\ b_pc # "idle"
        => /\ b_i <= Len(after_header(b_lines)) + 1
           /\ [k \in 1..Len(b_log) |-> [i |-> b_log[k].i, value |-> b_log[k].value]]
                = NonEmptyLines(b_lines, b_i - 1)
    /\ b_pc = "done"
        => /\ b_i = Len(after_header(b_lines)) + 1
           /\ Len(b_log) = Len(NonEmptyLines(b_lines, Len(after_header(b_lines))))

\* a run to the end in which a line failed and a later line was still saved
C10_Witness ==
    /\ b_pc = "done"
    /\ Len(b_log) = 3
    /\ b_log[1].outcome = "generate_failed"
    /\ b_log[2].outcome = "postprocess_failed"
    /\ b_log[3].outcome = "saved"

=============================================================================
